---- MODULE Spec2Model ----
(***************************************************************************)
(* A model of grub_md (src/grub_md/src/lib.rs): the HTML -> Markdown       *)
(* pipeline run_pipeline, its tree walker, the two Markdown cleaners, the  *)
(* citation / link / image post-processing and the fallback controller.    *)
(*                                                                         *)
(* Text is a sequence of characters; a character is a one-character        *)
(* string.  The regular expressions of the source are modelled by what     *)
(* they match: leftmost, non-overlapping, greedy or lazy as written.       *)
(***************************************************************************)
EXTENDS Integers, Sequences, FiniteSets, TLC

\* ------------------------------------------------------------------------
\* Characters and strings
\* ------------------------------------------------------------------------

NL == "\n"
SP == " "
\* The backquote, which a TLA+ string cannot hold.
BQ == "bq"

Whitespace == {SP, NL}
Digits == {"0", "1", "2", "3", "4", "5", "6", "7", "8", "9"}

\* The empty string.
Empty == <<>>

\* Number of consecutive characters of the set cs in s, starting at index i.
RECURSIVE RunLen(_, _, _)
RunLen(s, i, cs) ==
    IF i > Len(s) \/ i < 1 THEN 0
    ELSE IF s[i] \in cs THEN 1 + RunLen(s, i + 1, cs)
    ELSE 0

\* Index of the first character of the set cs at or after i; 0 when there is none.
RECURSIVE IndexOf(_, _, _)
IndexOf(s, i, cs) ==
    IF i > Len(s) \/ i < 1 THEN 0
    ELSE IF s[i] \in cs THEN i
    ELSE IndexOf(s, i + 1, cs)

\* s[i .. j-1]
Slice(s, i, j) == SubSeq(s, i, j - 1)

\* Does the literal lit occur in s at index i?
StartsAt(s, i, lit) ==
    /\ i >= 1
    /\ i + Len(lit) - 1 <= Len(s)
    /\ \A k \in 1..Len(lit) : s[i + k - 1] = lit[k]

\* str::contains
Contains(s, lit) == \E i \in 1..(Len(s) + 1) : StartsAt(s, i, lit)

\* Index of the first occurrence of lit in s; 0 when there is none.
Find(s, lit) ==
    IF Contains(s, lit)
    THEN CHOOSE i \in 1..(Len(s) + 1) :
            /\ StartsAt(s, i, lit)
            /\ \A j \in 1..(i - 1) : ~StartsAt(s, j, lit)
    ELSE 0

\* str::replacen(from, to, 1): replace the first occurrence of from, if any.
replacen1(s, from, to) ==
    LET i == Find(s, from) IN
    IF i = 0 \/ from = Empty THEN s
    ELSE Slice(s, 1, i) \o to \o Slice(s, i + Len(from), Len(s) + 1)

\* str::trim: strip leading and trailing whitespace.
trim(s) ==
    LET lead == RunLen(s, 1, Whitespace) IN
    IF lead = Len(s) THEN Empty
    ELSE LET last == CHOOSE j \in 1..Len(s) :
                        /\ s[j] \notin Whitespace
                        /\ \A k \in (j + 1)..Len(s) : s[k] \in Whitespace
         IN  Slice(s, lead + 1, last + 1)

\* Concatenation of a sequence of strings with a separator (slice::join).
RECURSIVE Join(_, _)
Join(parts, sep) ==
    IF parts = <<>> THEN Empty
    ELSE IF Len(parts) = 1 THEN parts[1]
    ELSE parts[1] \o sep \o Join(Tail(parts), sep)

\* split_whitespace().collect().join(" "): whitespace runs become one space,
\* leading and trailing whitespace disappear.
RECURSIVE SplitWhitespace(_, _)
SplitWhitespace(s, i) ==
    LET ws == RunLen(s, i, Whitespace)
        j  == i + ws
    IN  IF j > Len(s) THEN <<>>
        ELSE LET e == IndexOf(s, j, Whitespace)
                 stop == IF e = 0 THEN Len(s) + 1 ELSE e
             IN  <<Slice(s, j, stop)>> \o SplitWhitespace(s, stop)

NormaliseWhitespace(s) == Join(SplitWhitespace(s, 1), <<SP>>)

\* usize::to_string, for the numbers the model reaches.
DigitOf(d) == CASE d = 0 -> "0" [] d = 1 -> "1" [] d = 2 -> "2" [] d = 3 -> "3"
                [] d = 4 -> "4" [] d = 5 -> "5" [] d = 6 -> "6" [] d = 7 -> "7"
                [] d = 8 -> "8" [] d = 9 -> "9"

RECURSIVE to_string(_)
to_string(n) ==
    IF n < 10 THEN <<DigitOf(n)>>
    ELSE to_string(n \div 10) \o <<DigitOf(n % 10)>>

\* ------------------------------------------------------------------------
\* Regular expressions of the cleaners (lib.rs 564-569) and of strip_links
\* (lib.rs 656, 660).  MatchEnd(re, s, i) is the index just after the match
\* of re that starts at i, or 0 when re does not match at i.
\* ------------------------------------------------------------------------

Min(a, b) == IF a < b THEN a ELSE b

\* \n{3,}
MatchMultiNl(s, i) ==
    LET n == RunLen(s, i, {NL}) IN IF n >= 3 THEN i + n ELSE 0

\*  {2,}
MatchMultiSp(s, i) ==
    LET n == RunLen(s, i, {SP}) IN IF n >= 2 THEN i + n ELSE 0

\* \n- \n
MatchEmptyLi(s, i) ==
    IF StartsAt(s, i, <<NL, "-", SP, NL>>) THEN i + 4 ELSE 0

\* \n\d+\. \n
MatchEmptyOl(s, i) ==
    IF i <= Len(s) /\ s[i] = NL
    THEN LET d == RunLen(s, i + 1, Digits) IN
         IF d >= 1 /\ StartsAt(s, i + 1 + d, <<".", SP, NL>>)
         THEN i + 1 + d + 3 ELSE 0
    ELSE 0

\* \n+(#{1,6})
MatchHeaderBefore(s, i) ==
    LET n == RunLen(s, i, {NL})
        h == RunLen(s, i + n, {"#"})
    IN  IF n >= 1 /\ h >= 1 THEN i + n + Min(h, 6) ELSE 0

\* (#{1,6}.*)\n+   ('.' does not match a newline)
MatchHeaderAfter(s, i) ==
    IF i <= Len(s) /\ s[i] = "#"
    THEN LET j == IndexOf(s, i, {NL}) IN
         IF j = 0 THEN 0 ELSE j + RunLen(s, j, {NL})
    ELSE 0

\* \[([^\]]+)\]\([^)]+\)
MatchStripLink(s, i) ==
    IF i <= Len(s) /\ s[i] = "["
    THEN LET j == IndexOf(s, i + 1, {"]"}) IN
         IF j > i + 1 /\ StartsAt(s, j + 1, <<"(">>)
         THEN LET k == IndexOf(s, j + 2, {")"}) IN
              IF k > j + 2 THEN k + 1 ELSE 0
         ELSE 0
    ELSE 0

\* !\[([^\]]*)\]\([^)]+\)
MatchStripImage(s, i) ==
    IF StartsAt(s, i, <<"!", "[">>)
    THEN LET j == IndexOf(s, i + 2, {"]"}) IN
         IF j >= i + 2 /\ StartsAt(s, j + 1, <<"(">>)
         THEN LET k == IndexOf(s, j + 2, {")"}) IN
              IF k > j + 2 THEN k + 1 ELSE 0
         ELSE 0
    ELSE 0

MatchEnd(re, s, i) ==
    CASE re = "RE_MULTI_NL"      -> MatchMultiNl(s, i)
      [] re = "RE_MULTI_SP"      -> MatchMultiSp(s, i)
      [] re = "RE_EMPTY_LI"      -> MatchEmptyLi(s, i)
      [] re = "RE_EMPTY_OL"      -> MatchEmptyOl(s, i)
      [] re = "RE_HEADER_BEFORE" -> MatchHeaderBefore(s, i)
      [] re = "RE_HEADER_AFTER"  -> MatchHeaderAfter(s, i)
      [] re = "STRIP_LINK"       -> MatchStripLink(s, i)
      [] re = "STRIP_IMAGE"      -> MatchStripImage(s, i)

\* The replacement text of the match s[i .. e-1] of re, as the call site gives it.
Replacement(re, s, i, e) ==
    CASE re = "RE_MULTI_NL"      -> <<NL, NL>>
      [] re = "RE_MULTI_SP"      -> <<SP>>
      [] re = "RE_EMPTY_LI"      -> <<NL>>
      [] re = "RE_EMPTY_OL"      -> <<NL>>
      [] re = "RE_HEADER_BEFORE" ->
            LET n == RunLen(s, i, {NL}) IN <<NL, NL>> \o Slice(s, i + n, e)
      [] re = "RE_HEADER_AFTER"  ->
            Slice(s, i, IndexOf(s, i, {NL})) \o <<NL, NL>>
      [] re = "STRIP_LINK"       -> Slice(s, i + 1, IndexOf(s, i + 1, {"]"}))
      [] re = "STRIP_IMAGE"      -> Slice(s, i + 2, IndexOf(s, i + 2, {"]"}))

\* Regex::replace_all: the matches are found left to right, each search
\* starting where the previous match ended; the text between them is kept.
RECURSIVE ReplaceFrom(_, _, _)
ReplaceFrom(re, s, i) ==
    IF i > Len(s) THEN Empty
    ELSE LET e == MatchEnd(re, s, i) IN
         IF e = 0 THEN <<s[i]>> \o ReplaceFrom(re, s, i + 1)
         ELSE Replacement(re, s, i, e) \o ReplaceFrom(re, s, e)

replace_all(re, s) == ReplaceFrom(re, s, 1)

\* ------------------------------------------------------------------------
\* The cleaners (lib.rs 571-585)
\* ------------------------------------------------------------------------

clean_markdown(md) ==
    LET s1 == replace_all("RE_MULTI_NL", md)
        s2 == replace_all("RE_MULTI_SP", s1)
        s3 == replace_all("RE_EMPTY_LI", s2)
        s4 == replace_all("RE_EMPTY_OL", s3)
    IN  trim(s4)

clean_markdown_readable(md) ==
    LET s1 == replace_all("RE_MULTI_NL", md)
        s2 == replace_all("RE_EMPTY_LI", s1)
        s3 == replace_all("RE_HEADER_BEFORE", s2)
        s4 == replace_all("RE_HEADER_AFTER", s3)
    IN  trim(s4)

\* Replace [text](url) with text, then ![alt](url) with alt.
strip_links(md) ==
    replace_all("STRIP_IMAGE", replace_all("STRIP_LINK", md))

\* ------------------------------------------------------------------------
\* State
\* ------------------------------------------------------------------------

VARIABLES
    pc,                \* position in the program
    family,            \* which family of inputs this behaviour draws from
    nodes,             \* the parsed Document: node id -> node, in document order
    open,              \* the parser's stack of open elements
    read,              \* the number of fragments the parser has read
    html_len,          \* html.len()
    base_url,          \* the base_url argument
    dedupe_tables,     \* the dedupe_tables argument
    skip_ids,          \* build_skip_set's result
    main_node,         \* find_main_content's result (0 = None)
    buf,               \* the buffer the last walk filled
    layout_table_depth, \* the walker's depth counter when that walk returned
    first_raw,         \* the primary pass, cleaned
    fell_back,         \* whether should_fallback chose the second walk
    raw,               \* the final cleaned raw text
    matches,           \* extract_links_and_citations: the matches still to number
    links,             \* extract_links_and_citations: the LinkInfo records so far
    citation_counter,  \* extract_links_and_citations: the next citation number
    result,            \* extract_links_and_citations: the text being rewritten
    out,               \* the PipelineResult, once assembled
    recleaned          \* clean_markdown applied to an already cleaned text

vars == <<pc, family, nodes, open, read, html_len, base_url, dedupe_tables, skip_ids,
          main_node, buf, layout_table_depth, first_raw, fell_back, raw, matches, links,
          citation_counter, result, out, recleaned>>

domVars == <<nodes, open, read>>
inputVars == <<html_len, base_url, dedupe_tables>>
walkVars == <<skip_ids, main_node, buf, layout_table_depth, first_raw, fell_back, raw>>
postVars == <<matches, links, citation_counter, result, out>>

\* ------------------------------------------------------------------------
\* The Document (scraper::Html): nodes[id] is the node with that NodeId.
\* Ids follow document order: the parser creates nodes as it reads them.
\* Node 1 is the root element html, node 2 head, node 3 body.
\* ------------------------------------------------------------------------

\* An attribute that is not present (attr(..) = None).
Absent == <<"(absent)">>

unwrap_or(v, default) == IF v = Absent THEN default ELSE v

Element(tag, parent) ==
    [kind |-> "element", tag |-> tag, parent |-> parent, class |-> <<>>,
     hidden |-> FALSE, id |-> "", href |-> Absent, src |-> Absent,
     alt |-> Absent, title |-> Absent, text |-> Empty]

TextNode(text, parent) ==
    [kind |-> "text", tag |-> "#text", parent |-> parent, class |-> <<>>,
     hidden |-> FALSE, id |-> "", href |-> Absent, src |-> Absent,
     alt |-> Absent, title |-> Absent, text |-> text]

RootId == 1
HeadId == 2
BodyId == 3

\* Html::parse_document("") : html, head and body are always there.
EmptyDocument == <<Element("html", 0), Element("head", RootId), Element("body", RootId)>>

NodeIds == 1..Len(nodes)
IsElement(n) == nodes[n].kind = "element"
IsText(n) == nodes[n].kind = "text"
TagOf(n) == nodes[n].tag

\* el.children(), in document order.
RECURSIVE ChildrenFrom(_, _)
ChildrenFrom(n, i) ==
    IF i > Len(nodes) THEN <<>>
    ELSE IF nodes[i].parent = n THEN <<i>> \o ChildrenFrom(n, i + 1)
    ELSE ChildrenFrom(n, i + 1)

Children(n) == ChildrenFrom(n, n + 1)

\* el.children().filter_map(ElementRef::wrap)
ElementChildren(n) == SelectSeq(Children(n), IsElement)

\* n is a proper descendant of a.
RECURSIVE IsDescendant(_, _)
IsDescendant(n, a) ==
    IF n = 0 \/ nodes[n].parent = 0 THEN FALSE
    ELSE nodes[n].parent = a \/ IsDescendant(nodes[n].parent, a)

\* el.descendants().filter_map(ElementRef::wrap): the element and the
\* elements below it.
SubtreeElements(a) == {n \in NodeIds : IsElement(n) /\ (n = a \/ IsDescendant(n, a))}

\* direct_children_by_sel (lib.rs 520-526) for a selector that is a list of tags.
direct_children_by_sel(parent, tags) ==
    LET Hit(c) == IsElement(c) /\ TagOf(c) \in tags IN SelectSeq(Children(parent), Hit)

SEL_TABLE == {"table"}
SEL_TR == {"tr"}
SEL_THEAD_TBODY_TFOOT == {"thead", "tbody", "tfoot"}
SEL_TD_TH == {"td", "th"}
SEL_LI == {"li"}

SKIP_TAGS == {"script", "style", "noscript", "iframe", "object", "embed", "form",
              "input", "button", "select", "textarea"}

NAV_TAGS == {"nav", "header", "footer", "aside"}

NAV_CLASSES == {"nav", "navigation", "sidebar", "menu", "ads", "advertisement",
                "social", "share", "comments", "related", "popup", "modal"}

HIDDEN_CLASSES == {"sr-only", "sr_only", "srOnly", "visually-hidden",
                   "visually_hidden", "screen-reader-only", "screen_reader_only",
                   "a11y-only", "a11y_only"}

BLOCK_LIKE_TAGS == {"div", "p", "ul", "ol", "table", "article", "section",
                    "header", "footer", "nav", "aside"}

\* The class attribute, split at whitespace.
ClassesOf(n) == {nodes[n].class[k] : k \in 1..Len(nodes[n].class)}

should_skip(el) ==
    \/ TagOf(el) \in SKIP_TAGS
    \/ nodes[el].hidden
    \/ ClassesOf(el) \cap HIDDEN_CLASSES # {}

is_nav_clutter(el) ==
    \/ TagOf(el) \in NAV_TAGS
    \/ ClassesOf(el) \cap NAV_CLASSES # {}

\* ------------------------------------------------------------------------
\* URLs (the url crate).  A URL string is absolute when it has a scheme,
\* i.e. contains ':'.  Url::parse succeeds on absolute strings only;
\* Url::join keeps an absolute reference and puts a relative one after the base.
\* ------------------------------------------------------------------------

IsAbsolute(u) == \E k \in 1..Len(u) : u[k] = ":"

\* Option<Url>: Absent is None.
UrlParse(s) == IF s # Empty /\ IsAbsolute(s) THEN s ELSE Absent

UrlJoin(base, href) == IF IsAbsolute(href) THEN href ELSE base \o href

resolve_url(href, base) ==
    IF href = Empty THEN Empty
    ELSE IF base # Absent THEN UrlJoin(base, href)
    ELSE href

\* ------------------------------------------------------------------------
\* Text of a subtree (lib.rs 528-558)
\* ------------------------------------------------------------------------

RECURSIVE collect_text(_)
RECURSIVE collect_text_nodes(_)

\* The loop of collect_text over the children cs: text nodes are pushed,
\* elements are entered; no element is left out.
collect_text_nodes(cs) ==
    IF cs = <<>> THEN Empty
    ELSE (IF IsText(cs[1]) THEN nodes[cs[1]].text ELSE collect_text(cs[1]))
         \o collect_text_nodes(Tail(cs))

collect_text(el) == collect_text_nodes(Children(el))

get_text_content(el) == NormaliseWhitespace(collect_text(el))

get_raw_text(el) == collect_text(el)

\* ------------------------------------------------------------------------
\* The tree walker (lib.rs 180-513).  A Walker is w = [base_url,
\* dedupe_tables, skip_ids]; the mutable part of a walk is
\* st = [buf, layout_table_depth]: the buffer written so far and the
\* layout-table depth counter.  Each operator returns the state after the call.
\* ------------------------------------------------------------------------

Push(st, s) == [st EXCEPT !.buf = @ \o s]

Headings == {"h1", "h2", "h3", "h4", "h5", "h6"}

\* tag.as_bytes()[1] - b'0'
HeadingLevel(tag) ==
    CASE tag = "h1" -> 1 [] tag = "h2" -> 2 [] tag = "h3" -> 3
      [] tag = "h4" -> 4 [] tag = "h5" -> 5 [] tag = "h6" -> 6

Repeat(c, n) == [k \in 1..n |-> c]

\* str::lines
RECURSIVE Lines(_)
Lines(s) ==
    IF s = Empty THEN <<>>
    ELSE LET j == IndexOf(s, 1, {NL}) IN
         IF j = 0 THEN <<s>>
         ELSE <<Slice(s, 1, j)>> \o Lines(Slice(s, j + 1, Len(s) + 1))

RECURSIVE walk(_, _, _)
RECURSIVE walk_nodes(_, _, _)

\* The loop of walk_children over the children cs.
walk_nodes(w, cs, st) ==
    IF cs = <<>> THEN st
    ELSE LET c == cs[1]
             st1 == IF IsElement(c) THEN walk(w, c, st)
                    ELSE LET s == trim(nodes[c].text) IN
                         IF s # Empty THEN Push(st, s) ELSE st
         IN  walk_nodes(w, Tail(cs), st1)

walk_children(w, el, st) == walk_nodes(w, Children(el), st)

\* Walk children into a temporary String: the state after it holds the String.
children_to_string(w, el, st) ==
    walk_children(w, el, [st EXCEPT !.buf = Empty])

\* strong / b / em / i: wrap the children's text in the markers.
Wrapped(w, el, st, marker) ==
    LET r == children_to_string(w, el, st) IN
    IF r.buf # Empty
    THEN [r EXCEPT !.buf = st.buf \o marker \o r.buf \o marker]
    ELSE [r EXCEPT !.buf = st.buf]

handle_link(w, el, st) ==
    LET text == get_text_content(el)
        href == unwrap_or(nodes[el].href, Empty)
    IN  IF text = Empty /\ href = Empty THEN st
        ELSE IF text = Empty \/ href = Empty THEN Push(st, text)
        ELSE Push(st, <<"[">> \o text \o <<"]", "(">>
                      \o resolve_url(href, w.base_url) \o <<")">>)

ImageAlt == <<"I", "m", "a", "g", "e">>

handle_image(w, el, st) ==
    LET src == unwrap_or(nodes[el].src, Empty)
        alt == unwrap_or(nodes[el].alt, ImageAlt)
        title == unwrap_or(nodes[el].title, Empty)
    IN  IF src = Empty THEN st
        ELSE Push(st, <<"!", "[">> \o alt \o <<"]", "(">>
                      \o resolve_url(src, w.base_url)
                      \o (IF title # Empty THEN <<SP, "\"">> \o title \o <<"\"">>
                          ELSE Empty)
                      \o <<")">>)

\* The loop of handle_list over the items.
RECURSIVE list_items(_, _, _, _, _)
list_items(w, items, ordered, counter, st) ==
    IF items = <<>> THEN st
    ELSE LET r == children_to_string(w, items[1], st)
             trimmed == trim(r.buf)
         IN  IF trimmed # Empty
             THEN list_items(w, Tail(items), ordered,
                             IF ordered THEN counter + 1 ELSE counter,
                             [r EXCEPT !.buf =
                                 st.buf
                                 \o (IF ordered THEN to_string(counter) \o <<".", SP>>
                                     ELSE <<"-", SP>>)
                                 \o trimmed \o <<NL>>])
             ELSE list_items(w, Tail(items), ordered, counter,
                             [r EXCEPT !.buf = st.buf])

handle_list(w, el, ordered, st) ==
    Push(list_items(w, direct_children_by_sel(el, SEL_LI), ordered, 1, st), <<NL>>)

\* li outside ul / ol
handle_li(w, el, st) ==
    LET r == children_to_string(w, el, st)
        trimmed == trim(r.buf)
    IN  IF trimmed # Empty
        THEN [r EXCEPT !.buf = st.buf \o <<"-", SP>> \o trimmed \o <<NL>>]
        ELSE [r EXCEPT !.buf = st.buf]

\* The loop of the blockquote arm over the lines.
RECURSIVE quote_lines(_)
quote_lines(ls) ==
    IF ls = <<>> THEN Empty
    ELSE LET trimmed == trim(ls[1]) IN
         (IF trimmed # Empty THEN <<">", SP>> \o trimmed \o <<NL>> ELSE Empty)
         \o quote_lines(Tail(ls))

handle_blockquote(w, el, st) ==
    LET r == children_to_string(w, el, st) IN
    [r EXCEPT !.buf = st.buf \o quote_lines(Lines(r.buf)) \o <<NL>>]

handle_code(w, el, st) ==
    LET p == nodes[el].parent
        text == get_text_content(el)
    IN  IF p # 0 /\ IsElement(p) /\ TagOf(p) = "pre" THEN Push(st, text)
        ELSE IF text # Empty THEN Push(st, <<BQ>> \o text \o <<BQ>>)
        ELSE st

Fence == <<BQ, BQ, BQ>>

handle_pre(w, el, st) ==
    LET trimmed == trim(get_raw_text(el)) IN
    IF trimmed # Empty
    THEN Push(st, Fence \o <<NL>> \o trimmed \o <<NL>> \o Fence \o <<NL, NL>>)
    ELSE st

\* get_text_content of each cell
RECURSIVE cell_texts(_)
cell_texts(cells) ==
    IF cells = <<>> THEN <<>>
    ELSE <<get_text_content(cells[1])>> \o cell_texts(Tail(cells))

\* format!("| {} |", parts.join(" | "))
pipe_row(parts) == <<"|", SP>> \o Join(parts, <<SP, "|", SP>>) \o <<SP, "|">>

\* A faulty tr arm that ignores the counter.
handle_tr_at_any_depth(w, el, st) ==
    LET cells == direct_children_by_sel(el, SEL_TD_TH) IN
    IF cells # <<>>
    THEN Push(st, pipe_row(cell_texts(cells)) \o <<NL>>)
    ELSE st

\* The tr arm of walk.
handle_tr(w, el, st) ==
    IF w.dedupe_tables /\ st.layout_table_depth > 0
    THEN walk_children(w, el, st)
    ELSE LET cells == direct_children_by_sel(el, SEL_TD_TH) IN
         IF cells # <<>>
         THEN Push(st, pipe_row(cell_texts(cells)) \o <<NL>>)
         ELSE st

\* rows.extend(direct_children_by_sel(sec, &SEL_TR)) for each section
RECURSIVE section_rows(_)
section_rows(sections) ==
    IF sections = <<>> THEN <<>>
    ELSE direct_children_by_sel(sections[1], SEL_TR) \o section_rows(Tail(sections))

\* Gather rows: the direct tr children, else those of thead / tbody / tfoot.
table_rows(el) ==
    LET direct == direct_children_by_sel(el, SEL_TR) IN
    IF direct # <<>> THEN direct
    ELSE section_rows(direct_children_by_sel(el, SEL_THEAD_TBODY_TFOOT))

\* el.select(&SEL_TABLE).next().is_some(): a table below el.
has_nested_table(el) ==
    \E n \in NodeIds : IsElement(n) /\ TagOf(n) \in SEL_TABLE /\ IsDescendant(n, el)

has_block_children(first_row_cells) ==
    \E k \in 1..Len(first_row_cells) :
        \E c \in NodeIds :
            /\ nodes[c].parent = first_row_cells[k]
            /\ IsElement(c)
            /\ TagOf(c) \in BLOCK_LIKE_TAGS

LayoutMaxCells == 2
LayoutMinRows == 15

looks_like_layout(first_row_cells, rows) ==
    /\ first_row_cells # <<>>
    /\ Len(first_row_cells) <= LayoutMaxCells
    /\ Len(rows) >= LayoutMinRows

\* The table is rendered by recursion, not as a grid.
is_layout_table(el) ==
    LET rows == table_rows(el)
        first_row_cells == direct_children_by_sel(rows[1], SEL_TD_TH)
    IN  \/ has_nested_table(el)
        \/ has_block_children(first_row_cells)
        \/ looks_like_layout(first_row_cells, rows)

\* The row strings of the rows that have cells.
RECURSIVE md_rows_of(_)
md_rows_of(rows) ==
    IF rows = <<>> THEN <<>>
    ELSE LET cells == direct_children_by_sel(rows[1], SEL_TD_TH) IN
         (IF cells = <<>> THEN <<>> ELSE <<pipe_row(cell_texts(cells))>>)
         \o md_rows_of(Tail(rows))

\* first_has_th: set while the row of index 0 is read.
first_has_th(rows) ==
    LET cells == direct_children_by_sel(rows[1], SEL_TD_TH) IN
    \E k \in 1..Len(cells) : TagOf(cells[k]) = "th"

\* A faulty count: the header cells only.
th_cell_count(rows) ==
    LET cells == direct_children_by_sel(rows[1], SEL_TD_TH) IN
    Cardinality({k \in 1..Len(cells) : TagOf(cells[k]) = "th"})

\* first_cell_count: set while the row of index 0 is read.
first_cell_count(rows) == Len(direct_children_by_sel(rows[1], SEL_TD_TH))

separator_row(count) == pipe_row(Repeat(<<"-", "-", "-">>, count))

\* Vec::insert(1, sep)
InsertSecond(rows, sep) == <<rows[1], sep>> \o Tail(rows)

\* md_rows as emitted: with the separator when the first row has a th.
emitted_rows(rows) ==
    LET md_rows == md_rows_of(rows) IN
    IF md_rows # <<>> /\ first_has_th(rows) /\ first_cell_count(rows) > 0
    THEN InsertSecond(md_rows, separator_row(first_cell_count(rows)))
    ELSE md_rows

\* Each row and a newline.
RECURSIVE rows_text(_)
rows_text(md_rows) ==
    IF md_rows = <<>> THEN Empty
    ELSE md_rows[1] \o <<NL>> \o rows_text(Tail(md_rows))

\* Data table: emit the markdown table.
data_table(el, st) ==
    LET md_rows == emitted_rows(table_rows(el)) IN
    IF md_rows = <<>> THEN st
    ELSE Push(st, rows_text(md_rows) \o <<NL>>)

\* A faulty recursion that leaves the counter raised.
layout_table_left_raised(w, el, st) ==
    IF w.dedupe_tables
    THEN walk_children(w, el, [st EXCEPT !.layout_table_depth = @ + 1])
    ELSE walk_children(w, el, st)

\* Recursion into a layout table, the depth counter raised around it.
layout_table(w, el, st) ==
    IF w.dedupe_tables
    THEN LET r == walk_children(w, el,
                      [st EXCEPT !.layout_table_depth = @ + 1])
         IN  [r EXCEPT !.layout_table_depth = @ - 1]
    ELSE walk_children(w, el, st)

handle_table(w, el, st) ==
    IF TagOf(el) # "table" THEN walk_children(w, el, st)
    ELSE IF table_rows(el) = <<>>
         THEN (IF has_nested_table(el) THEN walk_children(w, el, st) ELSE st)
    ELSE IF is_layout_table(el) THEN layout_table(w, el, st)
    ELSE data_table(el, st)

\* The match on the tag name.
walk_match(w, el, st) ==
         LET tag == TagOf(el) IN
         CASE tag \in Headings ->
                LET text == get_text_content(el) IN
                IF text # Empty
                THEN Push(st, <<NL>> \o Repeat("#", HeadingLevel(tag)) \o <<SP>>
                              \o text \o <<NL, NL>>)
                ELSE st
           [] tag = "p" ->
                LET r == walk_children(w, el, st) IN
                IF Len(r.buf) > Len(st.buf) THEN Push(r, <<NL, NL>>) ELSE r
           [] tag = "br" -> Push(st, <<NL>>)
           [] tag \in {"strong", "b"} -> Wrapped(w, el, st, <<"*", "*">>)
           [] tag \in {"em", "i"} -> Wrapped(w, el, st, <<"*">>)
           [] tag = "a" -> handle_link(w, el, st)
           [] tag = "img" -> handle_image(w, el, st)
           [] tag = "ul" -> handle_list(w, el, FALSE, st)
           [] tag = "ol" -> handle_list(w, el, TRUE, st)
           [] tag = "li" -> handle_li(w, el, st)
           [] tag = "blockquote" -> handle_blockquote(w, el, st)
           [] tag \in {"code", "tt"} -> handle_code(w, el, st)
           [] tag = "pre" -> handle_pre(w, el, st)
           [] tag \in {"table", "thead", "tbody", "tfoot"} -> handle_table(w, el, st)
           [] tag = "tr" -> handle_tr(w, el, st)
           [] OTHER -> walk_children(w, el, st)

\* What a visit of el did: the counter on entry and the text appended.
Visit(el, st, r) ==
    [el |-> el, depth |-> st.layout_table_depth,
     text |-> SubSeq(r.buf, Len(st.buf) + 1, Len(r.buf))]

\* walk: the two skip checks, then the match; each visit that passes the
\* checks is written to the history of the walk when it returns.
walk(w, el, st) ==
    IF should_skip(el) THEN st
    ELSE IF el \in w.skip_ids THEN st
    ELSE LET r == walk_match(w, el, st) IN
         [r EXCEPT !.trace = Append(@, Visit(el, st, r))]

\* A fresh Walker state: String::with_capacity(..), layout_table_depth: 0,
\* and an empty history.
NewWalk == [buf |-> Empty, layout_table_depth |-> 0, trace |-> <<>>]

Walker(base, dedupe, skip) ==
    [base_url |-> base, dedupe_tables |-> dedupe, skip_ids |-> skip]

\* ------------------------------------------------------------------------
\* Main content detection (lib.rs 683-719)
\* ------------------------------------------------------------------------

\* A faulty add_subtree that leaves the descendants out.
add_element_only(el) == {el}

add_subtree(el) == SubtreeElements(el)

RECURSIVE collect_nav_ids(_)
RECURSIVE collect_nav_ids_of(_)

\* The loop of collect_nav_ids over the element children cs.
collect_nav_ids_of(cs) ==
    IF cs = <<>> THEN {}
    ELSE collect_nav_ids(cs[1]) \cup collect_nav_ids_of(Tail(cs))

collect_nav_ids(el) ==
    IF should_skip(el) \/ is_nav_clutter(el) THEN add_subtree(el)
    ELSE collect_nav_ids_of(ElementChildren(el))

build_skip_set == collect_nav_ids_of(ElementChildren(RootId))

\* The selectors of SEL_MAIN, in order.
SEL_MAIN == <<[tag |-> "main"], [tag |-> "article"], [class |-> "content"],
              [class |-> "main-content"], [class |-> "post-content"],
              [class |-> "entry-content"], [id |-> "content"], [id |-> "main"],
              [tag |-> "body"]>>

\* Selector::matches
Matches(sel, n) ==
    /\ IsElement(n)
    /\ "tag" \in DOMAIN sel => TagOf(n) = sel.tag
    /\ "class" \in DOMAIN sel => sel.class \in ClassesOf(n)
    /\ "id" \in DOMAIN sel => nodes[n].id = sel.id

\* A faulty search: the first element in document order that matches any
\* selector and is not skipped.
find_in_document_order(k, skip) ==
    LET hits == {n \in NodeIds : /\ n \notin skip
                                 /\ \E j \in k..Len(SEL_MAIN) : Matches(SEL_MAIN[j], n)}
    IN  IF hits # {} THEN CHOOSE n \in hits : \A m \in hits : n <= m ELSE 0

\* The first match of the k-th selector and the later ones that is not skipped.
RECURSIVE find_from(_, _)
find_from(k, skip) ==
    IF k > Len(SEL_MAIN) THEN 0
    ELSE LET hits == {n \in NodeIds : Matches(SEL_MAIN[k], n) /\ n \notin skip} IN
         IF hits # {} THEN CHOOSE n \in hits : \A m \in hits : n <= m
         ELSE find_from(k + 1, skip)

\* find_main_content: 0 is None.
find_main_content(skip) == find_from(1, skip)

\* ------------------------------------------------------------------------
\* Fallback logic (lib.rs 725-744)
\* ------------------------------------------------------------------------

FallbackMinHtml == 5000
FallbackMinMd == 400
\* md_len / html_len < 0.01, as html_len > 100 * md_len
FallbackRatio == 100

HackerNews == <<"n", "e", "w", "s", ".", "y", "c", "o", "m", "b", "i", "n", "a",
                "t", "o", "r", ".", "c", "o", "m">>
Permalink == <<"i", "t", "e", "m", "?", "i", "d", "=">>

\* A faulty order of the checks: the forum check before the size checks.
should_fallback_forum_first(hlen, md, base) ==
    LET md_len == Len(md) IN
    IF md_len = 0 THEN TRUE
    ELSE IF Contains(base, HackerNews) /\ ~Contains(md, Permalink) THEN TRUE
    ELSE IF hlen < FallbackMinHtml THEN FALSE
    ELSE IF md_len < FallbackMinMd THEN TRUE
    ELSE FallbackRatio * md_len < hlen

should_fallback(hlen, md, base) ==
    LET md_len == Len(md) IN
    IF md_len = 0 THEN TRUE
    ELSE IF hlen < FallbackMinHtml THEN FALSE
    ELSE IF md_len < FallbackMinMd THEN TRUE
    ELSE IF FallbackRatio * md_len < hlen THEN TRUE
    ELSE IF Contains(base, HackerNews) /\ ~Contains(md, Permalink) THEN TRUE
    ELSE FALSE

\* ------------------------------------------------------------------------
\* RE_LINK and RE_IMAGE (lib.rs 87-91)
\*   RE_LINK   !?\[([^\]]+)\]\(([^)]+?)(?:\s+"([^"]*)")?\)
\*   RE_IMAGE  !\[([^\]]*)\]\(([^)]+?)(?:\s+"([^"]*)")?\)
\* A match is [end, full, text, url, title]; end = 0 means no match.
\* ------------------------------------------------------------------------

NoMatch == [end |-> 0, full |-> Empty, text |-> Empty, url |-> Empty, title |-> Empty]

\* (?:\s+"([^"]*)")?\) at index u: [end, title], end = 0 when it does not match.
\* The group is tried first, then the bare ')'.
UrlTail(s, u) ==
    LET ws == RunLen(s, u, Whitespace)
        q  == IF ws >= 1 /\ StartsAt(s, u + ws, <<"\"">>)
              THEN IndexOf(s, u + ws + 1, {"\""}) ELSE 0
    IN  IF q # 0 /\ StartsAt(s, q + 1, <<")">>)
        THEN [end |-> q + 2, title |-> Slice(s, u + ws + 1, q)]
        ELSE IF StartsAt(s, u, <<")">>) THEN [end |-> u + 1, title |-> Empty]
        ELSE [end |-> 0, title |-> Empty]

\* ([^)]+?): the shortest url, ending before index u or later, that the tail follows.
RECURSIVE UrlEnd(_, _)
UrlEnd(s, u) ==
    IF u > Len(s) THEN 0
    ELSE IF UrlTail(s, u).end # 0 THEN u
    ELSE IF s[u] = ")" THEN 0
    ELSE UrlEnd(s, u + 1)

\* The match of RE_LINK (image = FALSE) or RE_IMAGE (image = TRUE) starting at i.
LinkMatchAt(image, s, i) ==
    LET bang == IF StartsAt(s, i, <<"!">>) THEN 1 ELSE 0
        lb   == i + bang
        j    == IndexOf(s, lb + 1, {"]"})
        u0   == j + 2
        ue   == IF u0 <= Len(s) /\ s[u0] # ")" THEN UrlEnd(s, u0 + 1) ELSE 0
    IN  IF /\ (image => bang = 1)
           /\ StartsAt(s, lb, <<"[">>)
           /\ j # 0
           /\ (~image => j > lb + 1)
           /\ StartsAt(s, j + 1, <<"(">>)
           /\ ue # 0
        THEN LET t == UrlTail(s, ue) IN
             [end |-> t.end, full |-> Slice(s, i, t.end),
              text |-> Slice(s, lb + 1, j), url |-> Slice(s, u0, ue),
              title |-> t.title]
        ELSE NoMatch

\* Regex::find_iter / captures_iter from index i on.
RECURSIVE find_iter(_, _, _)
find_iter(image, s, i) ==
    IF i > Len(s) THEN <<>>
    ELSE LET m == LinkMatchAt(image, s, i) IN
         IF m.end = 0 THEN find_iter(image, s, i + 1)
         ELSE <<m>> \o find_iter(image, s, m.end)

\* Skip image links (start with !)
IsImageMatch(m) == StartsAt(m.full, 1, <<"!">>)

\* The matches extract_links_and_citations collects (lib.rs 597-612).
link_matches(md) ==
    LET Keep(m) == ~IsImageMatch(m) IN SelectSeq(find_iter(FALSE, md, 1), Keep)

\* The url of a LinkInfo (lib.rs 615-622).
link_url(url, base) == IF base # Absent THEN UrlJoin(base, url) ELSE url

LinkInfo(m, base, n) ==
    [text |-> m.text, url |-> link_url(m.url, base), title |-> m.title,
     citation_number |-> n]

\* format!("{}[{}]", text, citation_counter)
citation_text(m, n) == m.text \o <<"[">> \o to_string(n) \o <<"]">>

FirstCitation == 1

\* A faulty counter that leaves a gap after each citation.
skip_citation(n) == n + 2

\* The next value of citation_counter.
next_citation(n) == n + 1

\* One line of the references block (lib.rs 645-649).
reference_line(link) ==
    <<"[">> \o to_string(link.citation_number) \o <<"]", ":", SP>> \o link.url
    \o (IF link.title # Empty THEN <<SP, "\"">> \o link.title \o <<"\"">> ELSE Empty)
    \o <<NL>>

RECURSIVE reference_lines(_)
reference_lines(ls) ==
    IF ls = <<>> THEN Empty
    ELSE reference_line(ls[1]) \o reference_lines(Tail(ls))

ReferencesHeading == <<"#", "#", SP, "R", "e", "f", "e", "r", "e", "n", "c", "e", "s", NL>>

\* A faulty references block: the heading even without links.
references_with_heading(ls) == ReferencesHeading \o reference_lines(ls)

generate_references(ls) ==
    IF ls = <<>> THEN Empty
    ELSE ReferencesHeading \o reference_lines(ls)

ImageInfo(m) == [alt |-> m.text, url |-> m.url, title |-> m.title]

RECURSIVE image_infos(_)
image_infos(ms) ==
    IF ms = <<>> THEN <<>> ELSE <<ImageInfo(ms[1])>> \o image_infos(Tail(ms))

extract_images(md) == image_infos(find_iter(TRUE, md, 1))

\* links.iter().map(|l| l.url.clone()).collect()
RECURSIVE urls_of(_)
urls_of(ls) == IF ls = <<>> THEN <<>> ELSE <<ls[1].url>> \o urls_of(Tail(ls))

\* md_references (lib.rs 803-807)
md_references_of(md_with_citations, references) ==
    IF references = Empty THEN md_with_citations
    ELSE md_with_citations \o <<NL, NL>> \o references

\* ------------------------------------------------------------------------
\* The inputs.  A document is what the parser builds from a sequence of
\* fragments: start tags (with attributes, and possibly a first text child),
\* text and end tags.  Each family of inputs has its own set of fragments.
\* ------------------------------------------------------------------------

\* Bounds of the model: the fragments of a document, and of one with tables.
MaxFragments == 3
MaxTableFragments == 6
MaxRootFragments == 4
MaxLayoutFragments == 7

\* The text of the text node with id n when the fragment asks for a word:
\* a word of its own, so that the output shows where each piece came from.
Words == <<"A", "B", "C", "D", "E", "F", "G", "H", "J", "K", "L", "M", "N", "O",
           "P", "Q", "S", "T", "U", "V", "W", "X", "Y", "Z">>
WordOf(n) == <<Words[((n - 1) % Len(Words)) + 1]>>
Word == <<"(word)">>

\* A start tag that stays open (container = TRUE) or is closed at once.
Frag(tag, container) ==
    [tag |-> tag, container |-> container, class |-> <<>>, hidden |-> FALSE,
     id |-> "", href |-> Absent, src |-> Absent, alt |-> Absent,
     title |-> Absent, text |-> Empty]

\* A text node.
Text(t) == [Frag("#text", FALSE) EXCEPT !.text = t]

\* An element with a word as its only child.
Leaf(tag) == [Frag(tag, FALSE) EXCEPT !.text = Word]

RelUrl == <<"/", "u">>
AbsUrl == <<"h", ":", "v">>
BaseUrl == <<"h", ":">>

\* Text whose empty bullet line, once removed, joins two blank lines.
BulletText == <<"a", NL, NL, "-", SP, NL, NL, "b">>
\* Text with a run of whitespace inside.
SpacedText == <<"a", SP, NL, SP, "b">>
\* Text with the characters of link syntax.
BracketText == <<"a", "]", "b">>
LiteralLink == <<"[", "a", "]", "(", "u", ")">>

Families == {"text", "inline", "links", "chrome", "roots", "hidden", "table",
             "layout"}

Fragments(f) ==
    CASE f = "text" ->
            {Frag("p", TRUE), Frag("pre", TRUE), Frag("h2", TRUE), Frag("br", FALSE),
             Text(Word), Text(BulletText), Text(SpacedText)}
      [] f = "inline" ->
            {Frag("strong", TRUE), Frag("em", TRUE), Frag("blockquote", TRUE),
             Frag("ul", TRUE), Frag("ol", TRUE), Frag("li", TRUE),
             Frag("br", FALSE), Text(Word)}
      [] f = "links" ->
            {[Frag("a", FALSE) EXCEPT !.href = RelUrl, !.text = <<"a">>],
             [Frag("a", TRUE) EXCEPT !.href = AbsUrl],
             [Frag("img", FALSE) EXCEPT !.src = RelUrl, !.alt = <<"a">>],
             [Frag("img", FALSE) EXCEPT !.src = RelUrl, !.title = <<"t">>],
             Text(Word), Text(BracketText), Text(LiteralLink)}
      [] f = "chrome" ->
            {Frag("main", TRUE), Frag("nav", TRUE), Frag("ul", TRUE),
             [Frag("div", TRUE) EXCEPT !.class = <<"content">>],
             [Frag("div", TRUE) EXCEPT !.class = <<"post", "sidebar">>],
             Text(Word)}
      [] f = "roots" ->
            {Frag("article", TRUE), Frag("footer", TRUE),
             [Frag("div", TRUE) EXCEPT !.class = <<"entry-content">>],
             [Frag("div", TRUE) EXCEPT !.id = "main"],
             Text(Word)}
      [] f = "hidden" ->
            {Frag("h1", TRUE), Frag("pre", TRUE), Frag("code", TRUE),
             [Frag("a", TRUE) EXCEPT !.href = RelUrl],
             [Leaf("span") EXCEPT !.class = <<"sr-only">>],
             [Leaf("div") EXCEPT !.hidden = TRUE],
             Leaf("script"), Leaf("nav"), Text(Word)}
      [] f = "layout" ->
            {Frag("table", TRUE), Frag("tr", TRUE), Frag("td", TRUE), Leaf("div")}
      [] f = "table" ->
            {Frag("table", TRUE), Frag("tr", TRUE), Leaf("td"), Leaf("th"),
             Frag("td", TRUE), Leaf("div")}

FragmentBound(f) ==
    CASE f = "table" -> MaxTableFragments
      [] f = "roots" -> MaxRootFragments
      [] f = "layout" -> MaxLayoutFragments
      [] OTHER -> MaxFragments

\* The base_url and dedupe_tables arguments tried (defaults: "" and true).
BaseUrls(f) == IF f = "links" THEN {Empty, BaseUrl} ELSE {Empty}
Dedupes(f) == IF f = "table" THEN BOOLEAN ELSE {TRUE}

\* What the parser leaves where: the children an open element can get.
BlockTags == {"p", "div", "ul", "ol", "table", "pre", "blockquote", "main",
              "article", "nav", "footer", "li"} \cup Headings
TableParts == {"tbody", "thead", "tfoot", "tr", "td", "th"}

Allowed(parent, tag) ==
    CASE parent = "table" -> tag \in {"tbody", "thead", "tfoot", "tr"}
      [] parent \in {"tbody", "thead", "tfoot"} -> tag = "tr"
      [] parent = "tr" -> tag \in {"td", "th"}
      [] parent = "p" -> tag \notin BlockTags \cup TableParts
      [] parent \in Headings -> tag \notin Headings \cup TableParts
      [] parent = "a" -> tag \notin {"a"} \cup TableParts
      [] parent \in {"ul", "ol"} -> tag \notin TableParts
      [] parent = "li" -> tag \notin {"li"} \cup TableParts
      [] OTHER -> tag \notin TableParts

\* The nodes a fragment adds under the open element top: the element (or
\* the text node) and, for an element with text, its text child.  A tr
\* read in a table gets the tbody the parser implies.
NewNodes(f, top) ==
    LET implied == f.tag = "tr" /\ nodes[top].tag = "table"
        id == Len(nodes) + (IF implied THEN 2 ELSE 1)
        TextOf(n) == IF f.text = Word THEN WordOf(n) ELSE f.text
    IN  IF f.tag = "#text" THEN <<TextNode(TextOf(id), top)>>
        ELSE (IF implied THEN <<Element("tbody", top)>> ELSE <<>>)
             \o <<[kind |-> "element", tag |-> f.tag,
                   parent |-> IF implied THEN id - 1 ELSE top,
                   class |-> f.class, hidden |-> f.hidden, id |-> f.id,
                   href |-> f.href, src |-> f.src, alt |-> f.alt,
                   title |-> f.title, text |-> Empty]>>
             \o (IF f.text # Empty THEN <<TextNode(TextOf(id + 1), id)>> ELSE <<>>)

\* The elements a container fragment leaves open.
NewOpen(f, top) ==
    LET implied == f.tag = "tr" /\ nodes[top].tag = "table" IN
    IF ~f.container THEN <<>>
    ELSE IF implied THEN <<Len(nodes) + 1, Len(nodes) + 2>>
    ELSE <<Len(nodes) + 1>>

Top == open[Len(open)]

\* The last child of the open element is a text node: more text joins it.
EndsWithText(top) ==
    LET cs == Children(top) IN cs # <<>> /\ IsText(cs[Len(cs)])

\* html.len() of a document written briefly: three bytes a start tag, and the text.
RECURSIVE TextBytes(_)
TextBytes(i) ==
    IF i > Len(nodes) THEN 0
    ELSE (IF IsText(i) THEN Len(nodes[i].text) ELSE 3) + TextBytes(i + 1)

ShortHtmlLen == TextBytes(BodyId + 1)

\* The html.len() values tried: the short document, and one of 5000 bytes
\* where the walks can differ.
HtmlLens(f) ==
    IF f \in {"chrome", "hidden"} THEN {ShortHtmlLen, FallbackMinHtml}
    ELSE {ShortHtmlLen}

\* ------------------------------------------------------------------------
\* Initial state and the parser
\* ------------------------------------------------------------------------

NoResult ==
    [raw_markdown |-> Empty, clean_markdown |-> Empty,
     markdown_with_citations |-> Empty, references_markdown |-> Empty,
     markdown_references |-> Empty, markdown_plain |-> Empty,
     links |-> <<>>, images |-> <<>>, urls |-> <<>>]

Idle ==
    /\ nodes = EmptyDocument
    /\ open = <<BodyId>>
    /\ read = 0
    /\ html_len = 0
    /\ base_url = Empty
    /\ dedupe_tables = TRUE
    /\ skip_ids = {}
    /\ main_node = 0
    /\ buf = Empty
    /\ layout_table_depth = 0
    /\ first_raw = Empty
    /\ fell_back = FALSE
    /\ raw = Empty
    /\ matches = <<>>
    /\ links = <<>>
    /\ citation_counter = FirstCitation
    /\ result = Empty
    /\ out = NoResult
    /\ recleaned = Empty

Init ==
    /\ pc = "parse"
    /\ family \in Families
    /\ Idle

\* A start tag or a run of text is read.
AddFragment ==
    /\ pc = "parse"
    /\ read < FragmentBound(family)
    /\ \E f \in Fragments(family) :
        /\ Allowed(TagOf(Top), f.tag)
        /\ f.tag = "#text" => ~EndsWithText(Top)
        /\ nodes' = nodes \o NewNodes(f, Top)
        /\ open' = open \o NewOpen(f, Top)
    /\ read' = read + 1
    /\ UNCHANGED <<pc, family, inputVars, walkVars, postVars, recleaned>>

\* An end tag is read.
CloseElement ==
    /\ pc = "parse"
    /\ Len(open) > 1
    /\ open' = SubSeq(open, 1, Len(open) - 1)
    /\ UNCHANGED <<pc, family, nodes, read, inputVars, walkVars, postVars, recleaned>>

\* The body tag carries a class or the hidden attribute.
BodyAttributes == {[class |-> <<"modal">>, hidden |-> FALSE],
                   [class |-> <<>>, hidden |-> TRUE]}

BodyTag ==
    /\ pc = "parse"
    /\ family = "chrome"
    /\ read = 0
    /\ nodes[BodyId].class = <<>> /\ ~nodes[BodyId].hidden
    /\ \E a \in BodyAttributes :
        nodes' = [nodes EXCEPT ![BodyId].class = a.class, ![BodyId].hidden = a.hidden]
    /\ UNCHANGED <<pc, family, open, read, inputVars, walkVars, postVars, recleaned>>

\* ------------------------------------------------------------------------
\* run_pipeline (lib.rs 750-820)
\* ------------------------------------------------------------------------

\* parsed_base
parsed_base == IF base_url = Empty THEN Absent ELSE UrlParse(base_url)

\* The end of the input: run_pipeline is called with the parsed document,
\* builds the skip set and finds the main content node.
StartPipeline ==
    /\ pc = "parse"
    /\ html_len' \in HtmlLens(family)
    /\ base_url' \in BaseUrls(family)
    /\ dedupe_tables' \in Dedupes(family)
    /\ open' = <<>>
    /\ skip_ids' = build_skip_set
    /\ main_node' = find_main_content(build_skip_set)
    /\ pc' = "walk"
    /\ UNCHANGED <<family, nodes, read, buf, layout_table_depth, first_raw,
                   fell_back, raw, postVars, recleaned>>

\* The primary walk from the main content node, and clean_markdown.
PrimaryPass ==
    /\ pc = "walk"
    /\ LET st == IF main_node # 0
                 THEN walk(Walker(parsed_base, dedupe_tables, skip_ids),
                           main_node, NewWalk)
                 ELSE NewWalk
       IN  /\ buf' = st.buf
           /\ layout_table_depth' = st.layout_table_depth
           /\ first_raw' = clean_markdown(st.buf)
           /\ raw' = clean_markdown(st.buf)
    /\ pc' = "decide"
    /\ UNCHANGED <<family, domVars, inputVars, skip_ids, main_node, fell_back,
                   postVars, recleaned>>

\* A faulty second walk, whose result is kept only when it is longer.
FallbackIfLonger ==
    /\ pc = "decide"
    /\ should_fallback(html_len, raw, base_url)
    /\ LET st == walk(Walker(parsed_base, dedupe_tables, {}), RootId, NewWalk)
       IN  IF Len(clean_markdown(st.buf)) > Len(raw)
           THEN /\ buf' = st.buf
                /\ layout_table_depth' = st.layout_table_depth
                /\ raw' = clean_markdown(st.buf)
           ELSE UNCHANGED <<buf, layout_table_depth, raw>>
    /\ fell_back' = TRUE
    /\ pc' = "extract"
    /\ UNCHANGED <<family, domVars, inputVars, skip_ids, main_node, first_raw,
                   postVars, recleaned>>

\* The second walk: the whole document, with an empty skip set.
FallbackPass ==
    /\ pc = "decide"
    /\ should_fallback(html_len, raw, base_url)
    /\ LET st == walk(Walker(parsed_base, dedupe_tables, {}), RootId, NewWalk)
       IN  /\ buf' = st.buf
           /\ layout_table_depth' = st.layout_table_depth
           /\ raw' = clean_markdown(st.buf)
    /\ fell_back' = TRUE
    /\ pc' = "extract"
    /\ UNCHANGED <<family, domVars, inputVars, skip_ids, main_node, first_raw,
                   postVars, recleaned>>

NoFallback ==
    /\ pc = "decide"
    /\ ~should_fallback(html_len, raw, base_url)
    /\ pc' = "extract"
    /\ UNCHANGED <<family, domVars, inputVars, walkVars, postVars, recleaned>>

\* extract_links_and_citations: the matches are collected first.
CollectMatches ==
    /\ pc = "extract"
    /\ matches' = link_matches(raw)
    /\ links' = <<>>
    /\ citation_counter' = FirstCitation
    /\ result' = raw
    /\ pc' = "cite"
    /\ UNCHANGED <<family, domVars, inputVars, walkVars, out, recleaned>>

\* extract_links_and_citations: one turn of the loop over the matches.
CiteStep ==
    /\ pc = "cite"
    /\ matches # <<>>
    /\ LET m == Head(matches) IN
        /\ links' = Append(links, LinkInfo(m, parsed_base, citation_counter))
        /\ result' = replacen1(result, m.full, citation_text(m, citation_counter))
    /\ citation_counter' = next_citation(citation_counter)
    /\ matches' = Tail(matches)
    /\ UNCHANGED <<pc, family, domVars, inputVars, walkVars, out, recleaned>>

\* The rest of the post-processing and the PipelineResult.
Assemble ==
    /\ pc = "cite"
    /\ matches = <<>>
    /\ out' = [raw_markdown |-> raw,
               clean_markdown |-> clean_markdown_readable(raw),
               markdown_with_citations |-> result,
               references_markdown |-> generate_references(links),
               markdown_references |->
                   md_references_of(result, generate_references(links)),
               markdown_plain |-> strip_links(raw),
               links |-> links,
               images |-> extract_images(raw),
               urls |-> urls_of(links)]
    /\ pc' = "done"
    /\ UNCHANGED <<family, domVars, inputVars, walkVars, matches, links,
                   citation_counter, result, recleaned>>

Next ==
    \/ AddFragment
    \/ CloseElement
    \/ BodyTag
    \/ StartPipeline
    \/ PrimaryPass
    \/ FallbackPass
    \/ NoFallback
    \/ CollectMatches
    \/ CiteStep
    \/ Assemble

Spec == Init /\ [][Next]_vars

\* ------------------------------------------------------------------------
\* clean_markdown as a function of any text: the text is typed in, cleaned,
\* and the cleaned text is cleaned again.
\* ------------------------------------------------------------------------

\* Bound of the model: the length of a typed text.
MaxTextLen == 8

CleanerAlphabet == {"a", NL, SP, "-"}

InitClean ==
    /\ pc = "type"
    /\ family = "cleaner"
    /\ Idle

TypeChar ==
    /\ pc = "type"
    /\ Len(buf) < MaxTextLen
    /\ \E c \in CleanerAlphabet : buf' = Append(buf, c)
    /\ UNCHANGED <<pc, family, domVars, inputVars, skip_ids, main_node,
                   layout_table_depth, first_raw, fell_back, raw, postVars,
                   recleaned>>

CleanOnce ==
    /\ pc = "type"
    /\ raw' = clean_markdown(buf)
    /\ pc' = "cleaned"
    /\ UNCHANGED <<family, domVars, inputVars, skip_ids, main_node, buf,
                   layout_table_depth, first_raw, fell_back, postVars, recleaned>>

CleanAgain ==
    /\ pc = "cleaned"
    /\ recleaned' = clean_markdown(raw)
    /\ pc' = "recleaned"
    /\ UNCHANGED <<family, domVars, inputVars, walkVars, postVars>>

NextClean == TypeChar \/ CleanOnce \/ CleanAgain

SpecClean == InitClean /\ [][NextClean]_vars

\* ------------------------------------------------------------------------
\* should_fallback as a function of its arguments.
\* ------------------------------------------------------------------------

\* A text of n bytes.
Filler(n) == Repeat("x", n)

HtmlLenSamples == {0, 1, FallbackMinHtml - 1, FallbackMinHtml, FallbackMinHtml + 1,
                   FallbackRatio * FallbackMinMd - 1, FallbackRatio * FallbackMinMd,
                   FallbackRatio * FallbackMinMd + 1,
                   FallbackRatio * (FallbackMinMd + 1),
                   FallbackRatio * (FallbackMinMd + 1) + 1}

MdSamples == {Empty, Filler(1), Permalink, Filler(FallbackMinMd - 1),
              Filler(FallbackMinMd), Filler(FallbackMinMd + 1),
              Permalink \o Filler(FallbackMinMd - Len(Permalink)),
              Filler(FallbackMinMd - Len(Permalink)) \o Permalink \o <<"1">>}

BaseSamples == {Empty, BaseUrl, <<"h", ":">> \o HackerNews \o <<"/">>}

InitFallback ==
    /\ pc = "args"
    /\ family = "fallback"
    /\ nodes = EmptyDocument
    /\ open = <<>>
    /\ read = 0
    /\ html_len \in HtmlLenSamples
    /\ base_url \in BaseSamples
    /\ raw \in MdSamples
    /\ dedupe_tables = TRUE
    /\ skip_ids = {}
    /\ main_node = 0
    /\ buf = Empty
    /\ layout_table_depth = 0
    /\ first_raw = raw
    /\ fell_back = FALSE
    /\ matches = <<>>
    /\ links = <<>>
    /\ citation_counter = FirstCitation
    /\ result = Empty
    /\ out = NoResult
    /\ recleaned = Empty

Decide ==
    /\ pc = "args"
    /\ fell_back' = should_fallback(html_len, raw, base_url)
    /\ pc' = "decided"
    /\ UNCHANGED <<family, domVars, inputVars, skip_ids, main_node, buf,
                   layout_table_depth, first_raw, raw, postVars, recleaned>>

NextFallback == Decide

SpecFallback == InitFallback /\ [][NextFallback]_vars

\* ------------------------------------------------------------------------
\* Properties
\* ------------------------------------------------------------------------

TripleNewline == <<NL, NL, NL>>

\* The text nodes whose text is not only whitespace.
TextNodes == {n \in NodeIds : IsText(n) /\ trim(nodes[n].text) # Empty}

\* The elements above node n.
Ancestors(n) == {a \in NodeIds : IsDescendant(n, a)}

\* The citation pass is running or over.
Citing == pc \in {"cite", "done"}

\* C1: the citation numbers of the LinkInfo records are 1..N in list order,
\* without gaps or repeats, while the records are built and in the result,
\* where N is the number of non-image link matches of the cleaned text.
C1_CitationNumbersDense ==
    /\ Citing =>
        /\ \A i \in 1..Len(links) : links[i].citation_number = i
        /\ Len(links) + Len(matches) = Len(link_matches(raw))
    /\ pc = "done" =>
        /\ Len(out.links) = Len(link_matches(raw))
        /\ \A i \in 1..Len(out.links) : out.links[i].citation_number = i

\* C1 witness: a result with two numbered links and an image left unnumbered.
C1_TwoCitations ==
    /\ pc = "done"
    /\ Len(out.links) = 2
    /\ Len(out.images) = 1

\* C2 (as claimed): none of raw_markdown, markdown_with_citations,
\* markdown_plain and clean_markdown holds three newlines in a row.
C2_NoTripleNewline ==
    pc = "done" =>
        /\ ~Contains(out.raw_markdown, TripleNewline)
        /\ ~Contains(out.markdown_with_citations, TripleNewline)
        /\ ~Contains(out.markdown_plain, TripleNewline)
        /\ ~Contains(out.clean_markdown, TripleNewline)

\* C3 (as claimed): cleaning a cleaned text changes nothing.
C3_CleanIdempotent == pc = "recleaned" => recleaned = raw

\* The fallback decision has been taken.
Decided == pc \in {"extract", "cite", "done"}

\* The cleaned walk of the whole document with an empty skip set.
FullWalk ==
    clean_markdown(walk(Walker(parsed_base, dedupe_tables, {}), RootId, NewWalk).buf)

\* C4: with html of 5000 bytes or more and a primary result under 400
\* bytes, raw_markdown is the cleaned walk of the document root with an empty
\* skip set, whatever its length, and the other outputs are derived from it.
C4_SparseResultReplaced ==
    /\ (Decided /\ html_len >= FallbackMinHtml /\ Len(first_raw) < FallbackMinMd) =>
        /\ fell_back
        /\ raw = FullWalk
    /\ (pc = "done" /\ fell_back) =>
        /\ out.raw_markdown = FullWalk
        /\ out.clean_markdown = clean_markdown_readable(FullWalk)
        /\ out.markdown_plain = strip_links(FullWalk)
        /\ out.images = extract_images(FullWalk)
        /\ Len(out.links) = Len(link_matches(FullWalk))
        /\ out.urls = urls_of(out.links)

\* C4 witness: a primary result with text is replaced by an empty one.
C4_ReplacedByEmpty ==
    /\ pc = "done"
    /\ html_len >= FallbackMinHtml
    /\ first_raw # Empty
    /\ fell_back
    /\ out.raw_markdown = Empty

\* C5: should_fallback is true for empty markdown whatever the html length,
\* false for non-empty markdown with html under 5000 bytes whatever the
\* domain, and otherwise true exactly when the markdown is under 400 bytes,
\* or under a hundredth of the html, or the URL is a Hacker News one and the
\* markdown has no item permalink.
C5_FallbackChecksInOrder ==
    pc = "decided" =>
        LET md_len == Len(raw) IN
        /\ md_len = 0 => fell_back
        /\ (md_len > 0 /\ html_len < FallbackMinHtml) => ~fell_back
        /\ (md_len > 0 /\ html_len >= FallbackMinHtml) =>
            (fell_back <=>
                \/ md_len < FallbackMinMd
                \/ FallbackRatio * md_len < html_len
                \/ Contains(base_url, HackerNews) /\ ~Contains(raw, Permalink))

\* C5 witness: Hacker News markdown without a permalink, under short html,
\* is kept.
C5_ShortForumPageKept ==
    /\ pc = "decided"
    /\ raw # Empty
    /\ html_len < FallbackMinHtml
    /\ Contains(base_url, HackerNews)
    /\ ~Contains(raw, Permalink)
    /\ ~fell_back

\* The text node n lies inside an element that should_skip drops.
HardSkipped(n) == \E a \in Ancestors(n) : IsElement(a) /\ should_skip(a)

\* The text node n lies inside an element of the skip set.
InSkipSet(n) == \E a \in Ancestors(n) : a \in skip_ids

\* The text of node n shows in one of the markdown outputs.
Shown(n) ==
    LET t == trim(nodes[n].text) IN
    \/ Contains(out.raw_markdown, t)
    \/ Contains(out.clean_markdown, t)
    \/ Contains(out.markdown_with_citations, t)
    \/ Contains(out.markdown_plain, t)

\* C6 (as claimed): the text inside a hard-skipped element is in no output,
\* whatever element the hard-skipped one is nested in.
C6_HardSkippedTextAbsent ==
    pc = "done" => \A n \in TextNodes : HardSkipped(n) => ~Shown(n)

\* C7 (as claimed, the part on the skip set): when the fallback is not
\* triggered, raw_markdown has no text from an element of the skip set.
C7_SkipSetTextAbsent ==
    (pc = "done" /\ ~fell_back) =>
        \A n \in TextNodes : InSkipSet(n) => ~Contains(out.raw_markdown, trim(nodes[n].text))

\* The tables rendered as a grid whose first row has a header cell.
HeaderTables ==
    {t \in NodeIds : /\ IsElement(t)
                     /\ TagOf(t) = "table"
                     /\ table_rows(t) # <<>>
                     /\ ~is_layout_table(t)
                     /\ first_has_th(table_rows(t))}

HeaderCells(t) == direct_children_by_sel(table_rows(t)[1], SEL_TD_TH)

\* "|" and then " --- |" for each of k cells.
RECURSIVE DashCells(_)
DashCells(k) == IF k = 0 THEN Empty ELSE <<SP, "-", "-", "-", SP, "|">> \o DashCells(k - 1)

\* The lines of the rows that have cells, in document order.
RECURSIVE BodyLines(_)
BodyLines(rows) ==
    IF rows = <<>> THEN Empty
    ELSE LET cells == direct_children_by_sel(rows[1], SEL_TD_TH) IN
         (IF cells = <<>> THEN Empty ELSE pipe_row(cell_texts(cells)) \o <<NL>>)
         \o BodyLines(Tail(rows))

\* The grid of a table with a header row.
ExpectedGrid(t) ==
    pipe_row(cell_texts(HeaderCells(t))) \o <<NL>>
    \o <<"|">> \o DashCells(Len(HeaderCells(t))) \o <<NL>>
    \o BodyLines(Tail(table_rows(t)))
    \o <<NL>>

\* C8: a data table whose first row has a header cell and K direct cells is
\* written as the header row, a separator row of exactly K --- cells, and
\* the other rows that have cells, in document order; a table at the top of
\* the body is in the output so.
C8_HeaderSeparatorRows ==
    pc \notin {"parse", "walk"} =>
        \A t \in HeaderTables :
            /\ data_table(t, NewWalk).buf = ExpectedGrid(t)
            /\ handle_table(Walker(parsed_base, dedupe_tables, skip_ids), t, NewWalk).buf
                   = ExpectedGrid(t)
            /\ nodes[t].parent = BodyId => Contains(buf, ExpectedGrid(t))

\* C8 witness: a header row of a th and a td, then a row without cells and a
\* row with one.
C8_HeaderAndBody ==
    /\ pc = "done"
    /\ \E t \in HeaderTables :
        /\ nodes[t].parent = BodyId
        /\ Len(HeaderCells(t)) = 2
        /\ \E k \in 1..2 : TagOf(HeaderCells(t)[k]) = "td"
        /\ Len(table_rows(t)) >= 2
        /\ BodyLines(Tail(table_rows(t))) # Empty

LinkSyntax == <<"]", "(">>

\* C9 (as claimed): markdown_plain never holds "](".
C9_PlainWithoutLinkSyntax ==
    pc = "done" => ~Contains(out.markdown_plain, LinkSyntax)

\* C10 (as claimed): an empty document, one that renders to nothing, or one
\* without a content root gives a result of empty strings and empty lists.
C10_DegenerateIsEmpty ==
    (pc = "done" /\ (nodes = EmptyDocument \/ raw = Empty \/ main_node = 0)) =>
        out = NoResult

\* C10 (amended): an empty document, and one that renders to nothing, give
\* a result of empty strings and empty lists; a document without a content
\* root gives the result of the walk of the whole document with an empty
\* skip set, which need not be empty.
C10_NothingRenderedIsEmpty ==
    /\ (pc = "done" /\ (nodes = EmptyDocument \/ raw = Empty)) => out = NoResult
    /\ (pc = "done" /\ main_node = 0) =>
        /\ fell_back
        /\ out.raw_markdown = FullWalk

\* C10 witness: a hidden body with text: no content root, nothing rendered
\* by either walk, and an empty result.
C10_EmptyResult ==
    /\ pc = "done"
    /\ TextNodes # {}
    /\ main_node = 0
    /\ fell_back
    /\ out = NoResult

\* The skip set has been built and the main content node looked for.
Started == pc # "parse"

\* C11: the skip set is closed under descent: with an element it holds every
\* element below it.
C11_SkipSetSubtreeClosed ==
    Started =>
        \A a \in skip_ids : \A n \in NodeIds :
            (IsElement(n) /\ IsDescendant(n, a)) => n \in skip_ids

\* C11 witness: a clutter element in the skip set with an element two levels
\* below it.
C11_SkippedGrandchild ==
    /\ Started
    /\ \E a \in skip_ids : \E n \in NodeIds :
        /\ is_nav_clutter(a)
        /\ IsElement(n)
        /\ IsDescendant(n, a)
        /\ nodes[n].parent # a

\* Every match of the j-th selector is in the skip set.
AllSkipped(j) == \A n \in NodeIds : Matches(SEL_MAIN[j], n) => n \in skip_ids

\* C12: the main content node is not in the skip set; it matches a selector
\* all of whose earlier matches in document order, and all matches of the
\* selectors before it, are in the skip set; there is none only when every
\* match of every selector is in the skip set.
C12_FirstUnskippedByPriority ==
    Started =>
        /\ main_node \notin skip_ids
        /\ main_node # 0 =>
            \E k \in 1..Len(SEL_MAIN) :
                /\ Matches(SEL_MAIN[k], main_node)
                /\ \A j \in 1..(k - 1) : AllSkipped(j)
                /\ \A n \in NodeIds :
                    (Matches(SEL_MAIN[k], n) /\ n < main_node) => n \in skip_ids
        /\ main_node = 0 => \A j \in 1..Len(SEL_MAIN) : AllSkipped(j)

\* C12 witness: an article in the skip set, an id match first in the
\* document, and a class match after it chosen.
C12_LowerPriorityAfterSkipped ==
    /\ Started
    /\ \E n \in skip_ids : TagOf(n) = "article"
    /\ main_node # 0
    /\ "entry-content" \in ClassesOf(main_node)
    /\ \E n \in NodeIds : /\ IsElement(n)
                          /\ nodes[n].id = "main"
                          /\ n \notin skip_ids
                          /\ n < main_node

\* C13 (as claimed): in markdown_with_citations no link match of the cleaned
\* text is left, and every image construct of the cleaned text stands
\* unchanged.
C13_LinksReplacedImagesKept ==
    pc = "done" =>
        /\ link_matches(out.markdown_with_citations) = <<>>
        /\ extract_images(out.markdown_with_citations) = extract_images(raw)

\* The tables rendered as a grid.
DataTables ==
    {t \in NodeIds : /\ IsElement(t)
                     /\ TagOf(t) = "table"
                     /\ table_rows(t) # <<>>
                     /\ ~is_layout_table(t)}

\* The row has a td or th cell.
HasCells(r) == direct_children_by_sel(r, SEL_TD_TH) # <<>>

\* The rows of the table that are emitted: those with cells.
EmittedRows(t) == SelectSeq(table_rows(t), HasCells)

\* The row has a th cell.
HasTh(r) ==
    LET cells == direct_children_by_sel(r, SEL_TD_TH) IN
    \E k \in 1..Len(cells) : TagOf(cells[k]) = "th"

\* The grid of a data table, with the separator after the first emitted row
\* exactly when that row has a th cell.
GridBySeparatorRule(t) ==
    LET rows == EmittedRows(t)
        first == direct_children_by_sel(rows[1], SEL_TD_TH)
    IN  pipe_row(cell_texts(first)) \o <<NL>>
        \o (IF HasTh(rows[1])
            THEN <<"|">> \o DashCells(Len(first)) \o <<NL>>
            ELSE Empty)
        \o BodyLines(Tail(rows))
        \o <<NL>>

\* C14 (as claimed): a data table gets the separator row exactly when its
\* first emitted row has a th cell, with as many --- cells as that row and
\* right after it.
C14_SeparatorIffFirstEmittedHasTh ==
    Started =>
        \A t \in DataTables :
            EmittedRows(t) # <<>> => data_table(t, NewWalk).buf = GridBySeparatorRule(t)

\* C15 (as claimed): a text node the walker appends reaches the buffer with
\* each run of whitespace inside it collapsed to one space; stated for the
\* text nodes right below a body that is the walk's root.
C15_TextNodesNormalised ==
    (pc = "done" /\ main_node = BodyId /\ ~fell_back) =>
        \A n \in TextNodes :
            nodes[n].parent = BodyId => Contains(buf, NormaliseWhitespace(nodes[n].text))

\* The Walker and the root of the walk that filled the buffer.
LastWalker ==
    Walker(parsed_base, dedupe_tables, IF fell_back THEN {} ELSE skip_ids)

LastRoot == IF fell_back THEN RootId ELSE main_node

\* The history of that walk.
LastTrace ==
    IF LastRoot = 0 THEN <<>> ELSE walk(LastWalker, LastRoot, NewWalk).trace

\* The tables classified as layout: the recursion with the counter.
LayoutTables ==
    {t \in NodeIds : /\ IsElement(t)
                     /\ TagOf(t) = "table"
                     /\ table_rows(t) # <<>>
                     /\ is_layout_table(t)}

\* The layout tables of the walk whose recursion is open at node n.
OpenLayoutTables(n) ==
    {t \in LayoutTables : /\ IsDescendant(n, t)
                          /\ (t = LastRoot \/ IsDescendant(t, LastRoot))}

\* The walk is over and its buffer has not been replaced.
Walked == pc \notin {"parse", "walk"}

\* C16: with dedupe_tables, a tr visited inside the recursion of a layout
\* table appends what its children render and no row of its own; without
\* dedupe_tables, or outside such a recursion, a tr with a td or th cell
\* appends exactly one row "| a | b |" and a newline.
C16_LayoutRowsSuppressed ==
    Walked =>
        LET trace == LastTrace IN
        \A i \in 1..Len(trace) :
            LET v == trace[i]
                cells == direct_children_by_sel(v.el, SEL_TD_TH)
                inside == dedupe_tables /\ OpenLayoutTables(v.el) # {}
            IN  TagOf(v.el) = "tr" =>
                    /\ Contains(buf, v.text)
                    /\ inside =>
                        /\ v.text = walk_children(LastWalker, v.el,
                                        [NewWalk EXCEPT !.layout_table_depth = v.depth]).buf
                        /\ (\A t \in DataTables : ~IsDescendant(t, v.el)) =>
                                ~Contains(v.text, <<"|">>)
                    /\ (~inside /\ cells # <<>>) =>
                        v.text = pipe_row(cell_texts(cells)) \o <<NL>>

\* C16 witness: with dedupe_tables, a row of a layout table with text in a
\* cell is rendered without a pipe.
C16_RowRenderedInline ==
    /\ pc = "done"
    /\ dedupe_tables
    /\ ~Contains(buf, <<"|">>)
    /\ LET trace == LastTrace IN
       \E i \in 1..Len(trace) :
        /\ TagOf(trace[i].el) = "tr"
        /\ trace[i].depth > 0
        /\ trace[i].text # Empty

\* C17: the counter is never below 0; on entry to an element it is the
\* number of layout tables whose recursion is open there, and 0 when
\* dedupe_tables is off; it is 0 again when the walk returns.
C17_DepthCountsOpenLayoutTables ==
    Walked =>
        /\ layout_table_depth = 0
        /\ LET trace == LastTrace IN
           \A i \in 1..Len(trace) :
            LET v == trace[i] IN
            /\ v.depth >= 0
            /\ v.depth = IF dedupe_tables THEN Cardinality(OpenLayoutTables(v.el)) ELSE 0

\* C17 witness: an element visited inside two nested layout tables.
C17_TwoOpenLayoutTables ==
    /\ pc = "done"
    /\ LET trace == LastTrace IN
       \E i \in 1..Len(trace) : trace[i].depth = 2

\* C18 (as claimed): for each image construct of the cleaned text,
\* markdown_plain holds the alt text without the "!" before it and without
\* the URL in parentheses after it.
C18_PlainKeepsAltOnly ==
    pc = "done" =>
        \A i \in 1..Len(out.images) :
            LET image == out.images[i] IN
            /\ ~Contains(out.markdown_plain, <<"!">> \o image.alt)
            /\ ~Contains(out.markdown_plain, image.alt \o <<"]", "(">> \o image.url)

====
